---- MODULE Spec2Model ----
(***************************************************************************)
(* Model of ibid's plugin core (ibid/plugins/__init__.py): the Option      *)
(* descriptors, Processor construction and Processor.process, the handler  *)
(* decorators, and the RPC bridge.                                         *)
(***************************************************************************)
EXTENDS Integers, Sequences, FiniteSets, TLC

VARIABLES
    klass,      \* the plugin's processor class body: type, permission, members
    declared,   \* per class, addressed/processed/priority as the class body wrote them
    attrs,      \* per class, the slots addressed/processed/priority of its __dict__
    inst,       \* per class, "none" | "live": whether an instance exists
    newret,     \* how the last construction ended: "none" | "ok" | an exception name
    config,     \* ibid.config.plugins: the section stored under the plugin's name
    got,        \* the option read in progress: instance, option and what came back
    self,       \* the class of the instance whose process is running
    pc,         \* "idle" | "loop" (inside process) | "done" (process has ended)
    arg,        \* the event object handed to process (mutated in place)
    entry,      \* snapshot of arg when process was entered
    work,       \* the working event reference of the handler loop
    idx,        \* index of the next member of getmembers(self, ismethod)
    found,      \* the loop's `found` flag
    ret,        \* how process ended: "pending" | "None" | "event" | an exception name
    calls,      \* the handler invocations of the current process call, in order
    authlog,    \* the answers of ibid.auth.authorise during the current call
    request,    \* the HTTP request handed to the RPC resource
    rpcpc,      \* "idle" | "done": position of the RPC bridge
    verb,       \* "none" | "GET" | "POST": the render method the request went to
    response,   \* what the render method returned or raised
    invoked     \* the remote method invocations of the current request, in order

vars == << klass, declared, attrs, inst, newret, config, got, self, pc, arg, entry, work, idx, found, ret,
           calls, authlog, request, rpcpc, verb, response, invoked >>

classVars == << klass, declared, attrs, inst, newret >>
procVars == << self, pc, arg, entry, work, idx, found, ret, calls, authlog >>
rpcVars  == << request, rpcpc, verb, response, invoked >>

---------------------------------------------------------------------------
(* Bounds of the model *)

\* longest response list an event may carry
MaxResponses == 1
\* longest argument path of an RPC request (segments after the method name)
MaxPathArgs == 1

---------------------------------------------------------------------------
(* Regular expressions: re.compile(regex, re.I) and pattern.search *)

Chars == {"a", "A", "b"}

\* re.I: characters are compared case-insensitively
Lower(c) == IF c = "A" THEN "a" ELSE c

\* A pattern is anchors plus a sequence of quantified atoms.  atom is a literal
\* character or "." ; the atom repeats min..1 times, or min..unbounded when many;
\* cap is "none", "inner" for (x*) or "outer" for (x)? .
Part(atom, min, many, lazy, cap) ==
    [atom |-> atom, min |-> min, many |-> many, lazy |-> lazy, cap |-> cap]

\* ^a$            (the shape of ^ping$ and ^svn ?(?:repos|repositories)$)
PatPing == [anchStart |-> TRUE, anchEnd |-> TRUE,
            parts |-> << Part("a", 1, FALSE, FALSE, "none") >>]
\* ^a(.+)$        (the shape of ^gcalc\s+(.+)$)
PatArg == [anchStart |-> TRUE, anchEnd |-> TRUE,
           parts |-> << Part("a", 1, FALSE, FALSE, "none"),
                        Part(".", 1, TRUE, FALSE, "inner") >>]
\* ^(.+?)(b)?$    (the shape of \s+(.+?)(?:\s+#(\d+))?$ and (\s+full)?$)
PatOpt == [anchStart |-> TRUE, anchEnd |-> TRUE,
           parts |-> << Part(".", 1, TRUE, TRUE, "inner"),
                        Part("b", 0, FALSE, FALSE, "outer") >>]
\* (b)(.*)        (unanchored: search, not match)
PatSearch == [anchStart |-> FALSE, anchEnd |-> FALSE,
              parts |-> << Part("b", 1, FALSE, FALSE, "inner"),
                           Part(".", 0, TRUE, FALSE, "inner") >>]

NoPattern == [anchStart |-> FALSE, anchEnd |-> FALSE, parts |-> << >>]

\* A captured group: matched = FALSE is Python's None
Group(text) == [matched |-> TRUE, text |-> text]
NoneGroup == [matched |-> FALSE, text |-> << >>]

NoMatch == [ok |-> FALSE, groups |-> << >>]

Min(a, b) == IF a < b THEN a ELSE b

AtomMatches(atom, c) == atom = "." \/ Lower(atom) = Lower(c)

\* how many consecutive characters from 0-based position pos the atom accepts
RECURSIVE Run(_, _, _)
Run(atom, msg, pos) ==
    IF pos < Len(msg) /\ AtomMatches(atom, msg[pos + 1])
    THEN 1 + Run(atom, msg, pos + 1)
    ELSE 0

\* the most repetitions part can take at pos
MaxReps(part, msg, pos) ==
    IF part.many THEN Run(part.atom, msg, pos) ELSE Min(1, Run(part.atom, msg, pos))

Captured(part, msg, pos, n) ==
    CASE part.cap = "none" -> << >>
      [] part.cap = "outer" /\ n = 0 -> << NoneGroup >>
      [] OTHER -> << Group(SubSeq(msg, pos + 1, pos + n)) >>

\* The backtracking matcher: part k onwards at position pos; repetition counts
\* are tried greedy-first (or lazy-first) and the first success wins.
RECURSIVE MatchFrom(_, _, _, _, _)
RECURSIVE TryCount(_, _, _, _, _, _)
MatchFrom(p, k, msg, pos, groups) ==
    IF k > Len(p.parts)
    THEN IF p.anchEnd /\ pos # Len(msg) THEN NoMatch
         ELSE [ok |-> TRUE, groups |-> groups]
    ELSE LET part == p.parts[k]
             hi == MaxReps(part, msg, pos)
         IN  IF hi < part.min THEN NoMatch
             ELSE TryCount(p, k, msg, pos, groups,
                           IF part.lazy THEN part.min ELSE hi)

TryCount(p, k, msg, pos, groups, n) ==
    LET part == p.parts[k]
        hi == MaxReps(part, msg, pos)
        r == MatchFrom(p, k + 1, msg, pos + n,
                       groups \o Captured(part, msg, pos, n))
    IN  IF r.ok THEN r
        ELSE IF part.lazy
             THEN IF n < hi THEN TryCount(p, k, msg, pos, groups, n + 1)
                  ELSE NoMatch
             ELSE IF n > part.min THEN TryCount(p, k, msg, pos, groups, n - 1)
                  ELSE NoMatch

\* pattern.search(message): the leftmost start position that matches
RECURSIVE SearchFrom(_, _, _)
SearchFrom(p, msg, start) ==
    LET r == MatchFrom(p, 1, msg, start, << >>)
    IN  IF r.ok THEN r
        ELSE IF p.anchStart \/ start >= Len(msg) THEN NoMatch
             ELSE SearchFrom(p, msg, start + 1)

\* pattern.match in place of pattern.search: only position 0 is tried
SearchAtStart(p, msg) == MatchFrom(p, 1, msg, 0, << >>)

Search(p, msg) == SearchFrom(p, msg, 0)

---------------------------------------------------------------------------
(* Option descriptors and the configuration they read *)

OptionNames == {"addressed", "processed", "priority"}

\* raw strings a configuration file may hold under a key
RawValues == {"true", "off", "7"}
Absent == "absent"

NoSection == [present |-> FALSE, keys |-> [n \in OptionNames |-> Absent]]

\* BoolOption.accessor = 'as_bool', IntOption.accessor = 'as_int': the Section
\* accessors coerce the raw string and raise ValueError on a malformed one
Value(v) == [ok |-> TRUE, val |-> v]
ValueError == [ok |-> FALSE, val |-> "ValueError"]

as_bool(raw) ==
    CASE raw = "true" -> Value(TRUE)
      [] raw = "off" -> Value(FALSE)
      [] OTHER -> ValueError

as_int(raw) == IF raw = "7" THEN Value(7) ELSE ValueError

Accessor(name, raw) == IF name = "priority" THEN as_int(raw) ELSE as_bool(raw)

\* A class attribute slot: a plain value, an attached Option descriptor carrying
\* a default, or not defined in this class's own __dict__
Plain(v) == [kind |-> "plain", val |-> v]
OptionSlot(default) == [kind |-> "option", val |-> default]
Unset(v) == [kind |-> "unset", val |-> v]

Classes == {"Base", "Sub"}

\* getattr(cls, name) through the MRO  Sub -> Base -> Processor; Base's slots
\* already hold what it inherits from Processor
Lookup(at, c, name) ==
    IF c = "Sub" /\ at["Sub"][name].kind = "unset" THEN at["Base"][name]
    ELSE at[c][name]

\* Option.__get__(instance, owner) for an instance named after the plugin
OptionGet(at, cfg, c, name) ==
    IF cfg.present /\ cfg.keys[name] # Absent
    THEN Accessor(name, cfg.keys[name])
    ELSE Value(Lookup(at, c, name).val)

\* no read is in progress
NoRead == [class |-> "none", name |-> "none", result |-> [ok |-> FALSE, val |-> "none"]]

\* instance.<name> on a live processor: the attribute is the attached Option,
\* whose __get__ answers the read
ReadOption ==
    /\ pc = "idle"
    /\ got = NoRead
    /\ \E c \in Classes, name \in OptionNames :
         /\ inst[c] = "live"
         /\ got' = [class |-> c, name |-> name,
                    result |-> OptionGet(attrs, config, c, name)]
    /\ UNCHANGED << classVars, config, procVars, rpcVars >>

\* the reader has used what it read
ReadDone ==
    /\ got # NoRead
    /\ got' = NoRead
    /\ UNCHANGED << classVars, config, procVars, rpcVars >>

---------------------------------------------------------------------------
(* Processor.__new__ *)

ElevatedPriority == 1500

Built(at, ok) == [attrs |-> at, ok |-> ok]

\* lines 53-56: clone each option, take the class attribute as its default and
\* attach it; reading a class attribute that already is an Option descriptor
\* calls __get__(None, cls), which fails on instance.name
RECURSIVE AttachOptions(_, _, _)
AttachOptions(at, c, order) ==
    IF order = << >> THEN Built(at, TRUE)
    ELSE LET name == Head(order)
             cur == Lookup(at, c, name)
         IN  IF cur.kind = "option" THEN Built(at, FALSE)
             ELSE AttachOptions(
                      [at EXCEPT ![c][name] = OptionSlot(cur.val)],
                      c, Tail(order))

\* ElevatePriority without the test priority == 0
ElevateAlways(at, c) ==
    LET p == Lookup(at, c, "processed")
        q == Lookup(at, c, "priority")
    IN  IF p.kind = "option" THEN Built(at, FALSE)
        ELSE IF ~p.val THEN Built(at, TRUE)
        ELSE IF q.kind = "option" THEN Built(at, FALSE)
        ELSE Built([at EXCEPT ![c]["priority"] = Plain(ElevatedPriority)], TRUE)

\* lines 50-51: a class that handles processed events and left priority at 0
\* is moved to priority 1500
ElevatePriority(at, c) ==
    LET p == Lookup(at, c, "processed")
        q == Lookup(at, c, "priority")
    IN  IF p.kind = "option" THEN Built(at, FALSE)
        ELSE IF ~p.val THEN Built(at, TRUE)
        ELSE IF q.kind = "option" THEN Built(at, FALSE)
        ELSE IF q.val = 0
             THEN Built([at EXCEPT ![c]["priority"] = Plain(ElevatedPriority)], TRUE)
             ELSE Built(at, TRUE)

\* options.items(): the iteration order of a dict is not fixed by the language
OptionOrders ==
    { o \in [1..3 -> OptionNames] : \A n \in OptionNames : \E i \in 1..3 : o[i] = n }

New(at, c, order) ==
    LET e == ElevatePriority(at, c)
    IN  IF ~e.ok THEN e ELSE AttachOptions(e.attrs, c, order)

\* cls(name): Processor.__new__ and, when it succeeds, __init__; a failure
\* leaves the class with what __new__ had already attached
Construct ==
    /\ pc = "idle"
    /\ \E c \in Classes, order \in OptionOrders :
         LET built == New(attrs, c, order)
         IN  /\ attrs' = built.attrs
             /\ inst' = IF built.ok THEN [inst EXCEPT ![c] = "live"] ELSE inst
             /\ newret' = IF built.ok THEN "ok" ELSE "AttributeError"
    /\ UNCHANGED << klass, declared, config, got, procVars, rpcVars >>

---------------------------------------------------------------------------
(* Handler metadata: the decorators handler, match and authorise *)

\* a plain method: no handler metadata
Method(name) ==
    [name |-> name, handler |-> FALSE, haspattern |-> FALSE,
     pattern |-> NoPattern, authorised |-> FALSE]

\* @handler: function.handler = True
handler(function) == [function EXCEPT !.handler = TRUE]

\* @match(regex): function.handler = True, function.pattern = compiled regex
match(regex, function) ==
    [function EXCEPT !.handler = TRUE, !.haspattern = TRUE, !.pattern = regex]

\* @authorise: function.authorised = True
authorise(function) == [function EXCEPT !.authorised = TRUE]

\* the methods every processor has: Processor.__init__, process and setup
OwnMethods == { Method("__init__"), Method("process"), Method("setup") }

\* alphabetical order of the method names in use
NameOrder == << "__init__", "calc", "define", "process", "search", "setup" >>

\* inspect.getmembers(self, ismethod): the bound methods, sorted by name
getmembers(k) ==
    LET present == SelectSeq(NameOrder, LAMBDA n : \E m \in k.methods : m.name = n)
    IN  [i \in 1..Len(present) |-> CHOOSE m \in k.methods : m.name = present[i]]

\* Processor subclasses as plugins write them
Body(permission, handlers) ==
    [type |-> "message", permission |-> permission,
     methods |-> OwnMethods \cup handlers]

\* a processor that registers no handler at all
BodyEmpty == Body(FALSE, { })
\* pattern handlers and a plain handler side by side
BodyMixed == Body(FALSE, { match(PatArg, Method("calc")),
                           handler(Method("define")),
                           match(PatOpt, Method("search")) })
\* handlers that require authorisation, the class names its permission
BodyAuth == Body(TRUE, { authorise(match(PatArg, Method("calc"))),
                         authorise(handler(Method("define"))),
                         authorise(match(PatOpt, Method("search"))) })
\* an authorised handler followed by open ones
BodyAuthFirst == Body(TRUE, { authorise(match(PatOpt, Method("calc"))),
                              match(PatSearch, Method("define")),
                              match(PatPing, Method("search")) })
\* authorised handlers in a class that defines no permission attribute
BodyNoPermission == Body(FALSE, { match(PatPing, Method("calc")),
                                  authorise(match(PatSearch, Method("search"))) })

Bodies == { BodyEmpty, BodyMixed, BodyAuth, BodyAuthFirst, BodyNoPermission }

---------------------------------------------------------------------------
(* Events *)

Messages ==
    { << >>, << "a" >>, << "b" >>, << "A", "b" >>, << "a", "a" >>, << "b", "a", "b" >> }

\* an event as a transport builds it: nothing processed, no response yet;
\* addressed may be missing from the event altogether
Event(type, message, addressed) ==
    [id |-> 0, type |-> type, message |-> message, addressed |-> addressed,
     processed |-> FALSE, notauthed |-> "unset", responses |-> << >>]

\* message events of every text, and events of another type
NewEvents ==
    { Event("message", m, a) : m \in Messages, a \in {"true", "false", "absent"} }
    \cup { Event("state", << "a" >>, a) : a \in {"true", "false", "absent"} }

\* the texts a handler puts into an event it derives
DerivedMessages == { << "a" >>, << "A", "b" >> }

NoEvent == Event("none", << >>, "absent")

\* what a handler body may do with the event it is given
Effects == {"pass", "respond", "substitute", "raise"}

\* event.addresponse(...): the response is appended, the event is processed
addresponse(ev, reply) ==
    [ev EXCEPT !.responses = Append(@, reply), !.processed = TRUE]

\* a handler that builds a derived event and returns it
Derived(ev, message) == [ev EXCEPT !.id = @ + 1, !.message = message]

---------------------------------------------------------------------------
(* Processor.process *)

\* one handler invocation: the arguments it got and the event it returned
\* (returned = FALSE: it returned None, or raised)
Invocation(m, ev, args, returned, value) ==
    [name |-> m.name, event |-> ev, args |-> args,
     returned |-> returned, value |-> value]

\* Filter without the type test of line 68
FilterNoType(at, cfg, k, c, ev) ==
    LET a == OptionGet(at, cfg, c, "addressed")
    IN  IF ~a.ok THEN "ValueError"
        ELSE IF a.val /\ ev.addressed # "true" THEN "None"
        ELSE LET p == OptionGet(at, cfg, c, "processed")
             IN  IF ~p.ok THEN "ValueError"
                 ELSE IF ~p.val /\ ev.processed THEN "None"
                 ELSE "run"

\* Filter that takes an event without the addressed attribute as addressed
FilterAddressedPresent(at, cfg, k, c, ev) ==
    IF ev.type # k.type THEN "None"
    ELSE LET a == OptionGet(at, cfg, c, "addressed")
         IN  IF ~a.ok THEN "ValueError"
             ELSE IF a.val /\ ev.addressed = "false" THEN "None"
             ELSE LET p == OptionGet(at, cfg, c, "processed")
                  IN  IF ~p.ok THEN "ValueError"
                      ELSE IF ~p.val /\ ev.processed THEN "None"
                      ELSE "run"

\* Filter without the test of line 74
FilterIgnoresProcessed(at, cfg, k, c, ev) ==
    IF ev.type # k.type THEN "None"
    ELSE LET a == OptionGet(at, cfg, c, "addressed")
         IN  IF ~a.ok THEN "ValueError"
             ELSE IF a.val /\ ev.addressed # "true" THEN "None"
             ELSE LET p == OptionGet(at, cfg, c, "processed")
                  IN  IF ~p.ok THEN "ValueError" ELSE "run"

\* lines 68-75: the three filters; "run" lets the event through
Filter(at, cfg, k, c, ev) ==
    IF ev.type # k.type THEN "None"
    ELSE LET a == OptionGet(at, cfg, c, "addressed")
         IN  IF ~a.ok THEN "ValueError"
             ELSE IF a.val /\ ev.addressed # "true" THEN "None"
             ELSE LET p == OptionGet(at, cfg, c, "processed")
                  IN  IF ~p.ok THEN "ValueError"
                      ELSE IF ~p.val /\ ev.processed THEN "None"
                      ELSE "run"

\* the scheduler hands an event to process: a new one, or the one the
\* previous processor of the chain returned
ProcessEnter(c, ev) ==
    /\ pc = "idle"
    /\ inst[c] = "live"
    /\ LET f == Filter(attrs, config, klass, c, ev)
       IN  /\ pc' = IF f = "run" THEN "loop" ELSE "done"
           /\ ret' = IF f = "run" THEN "pending" ELSE f
    /\ self' = c
    /\ arg' = ev
    /\ entry' = ev
    /\ work' = ev
    /\ idx' = 1
    /\ found' = FALSE
    /\ calls' = << >>
    /\ authlog' = << >>
    /\ UNCHANGED << classVars, got, config, rpcVars >>

Dispatch == \E c \in Classes, ev \in NewEvents : ProcessEnter(c, ev)

\* the next processor of the chain gets the event the last one left
Chain ==
    /\ arg # NoEvent
    /\ \E c \in Classes : ProcessEnter(c, arg)

\* the working event becomes ev; the caller's event changes with it when the
\* working event still is the caller's object
Store(ev) ==
    /\ work' = ev
    /\ arg' = IF ev.id = arg.id THEN ev ELSE arg

\* Invoke that drops what the handler returned
InvokeDiscard(m, ev, args) ==
    \E effect \in Effects :
       \/ /\ effect \in {"pass", "raise"}
          /\ calls' = Append(calls, Invocation(m, ev, args, FALSE, NoEvent))
          /\ Store(ev)
          /\ IF effect = "raise"
             THEN idx' = idx /\ ret' = "HandlerFault" /\ pc' = "done"
             ELSE idx' = idx + 1 /\ ret' = ret /\ pc' = "loop"
       \/ /\ effect = "respond"
          /\ Len(ev.responses) < MaxResponses
          /\ calls' = Append(calls, Invocation(m, ev, args, FALSE, NoEvent))
          /\ Store(addresponse(ev, "reply"))
          /\ UNCHANGED ret
          /\ pc' = "loop" /\ idx' = idx + 1
       \/ /\ effect = "substitute"
          /\ \E msg \in DerivedMessages :
               calls' = Append(calls,
                   Invocation(m, ev, args, TRUE, Derived(ev, msg)))
          /\ Store(ev)
          /\ UNCHANGED ret
          /\ pc' = "loop" /\ idx' = idx + 1

\* line 85 / 87: event = method(event, *groups) or event
Invoke(m, ev, args) ==
    \E effect \in Effects :
       \/ /\ effect = "pass"
          /\ calls' = Append(calls, Invocation(m, ev, args, FALSE, NoEvent))
          /\ Store(ev)
          /\ UNCHANGED ret
          /\ pc' = "loop" /\ idx' = idx + 1
       \/ /\ effect = "respond"
          /\ Len(ev.responses) < MaxResponses
          /\ calls' = Append(calls, Invocation(m, ev, args, FALSE, NoEvent))
          /\ Store(addresponse(ev, "reply"))
          /\ UNCHANGED ret
          /\ pc' = "loop" /\ idx' = idx + 1
       \/ /\ effect = "substitute"
          /\ \E msg \in DerivedMessages :
               /\ calls' = Append(calls,
                      Invocation(m, ev, args, TRUE, Derived(ev, msg)))
               /\ work' = Derived(ev, msg)
               /\ arg' = IF ev.id = arg.id THEN ev ELSE arg
          /\ UNCHANGED ret
          /\ pc' = "loop" /\ idx' = idx + 1
       \/ /\ effect = "raise"
          /\ calls' = Append(calls, Invocation(m, ev, args, FALSE, NoEvent))
          /\ Store(ev)
          /\ UNCHANGED idx
          /\ ret' = "HandlerFault"
          /\ pc' = "done"

\* a member without handler metadata is passed over
SkipMember ==
    /\ pc = "loop" /\ idx <= Len(getmembers(klass))
    /\ ~getmembers(klass)[idx].handler
    /\ idx' = idx + 1
    /\ UNCHANGED << classVars, got, config, rpcVars, self, pc, arg, entry, work,
                    found, ret, calls, authlog >>

\* lines 86-87: a handler without a pattern gets the event alone
PlainHandler ==
    /\ pc = "loop" /\ idx <= Len(getmembers(klass))
    /\ LET m == getmembers(klass)[idx]
       IN  /\ m.handler /\ ~m.haspattern
           /\ found' = TRUE
           /\ Invoke(m, work, << >>)
    /\ UNCHANGED << classVars, got, config, rpcVars, self, entry, authlog >>

\* lines 81-83: the pattern does not match the message
PatternMiss ==
    /\ pc = "loop" /\ idx <= Len(getmembers(klass))
    /\ LET m == getmembers(klass)[idx]
       IN  /\ m.handler /\ m.haspattern
           /\ ~Search(m.pattern, work.message).ok
    /\ found' = TRUE
    /\ idx' = idx + 1
    /\ UNCHANGED << classVars, got, config, rpcVars, self, pc, arg, entry, work,
                    ret, calls, authlog >>

\* lines 84-85: the pattern matches and the handler asks for no authorisation
PatternHandler ==
    /\ pc = "loop" /\ idx <= Len(getmembers(klass))
    /\ LET m == getmembers(klass)[idx]
           r == Search(m.pattern, work.message)
       IN  /\ m.handler /\ m.haspattern /\ r.ok
           /\ ~m.authorised
           /\ found' = TRUE
           /\ Invoke(m, work, r.groups)
    /\ UNCHANGED << classVars, got, config, rpcVars, self, entry, authlog >>

\* auth_responses that refuses without marking the event
auth_responses_silent(ev, allowed) == [ok |-> allowed, event |-> ev]

\* lines 106-111: ibid.auth.authorise answers `allowed`; a refusal is
\* recorded on the event
auth_responses(ev, allowed) ==
    IF ~allowed THEN [ok |-> FALSE, event |-> [ev EXCEPT !.notauthed = "true"]]
    ELSE [ok |-> TRUE, event |-> ev]

\* AuthorisedHandler that leaves process (returning None) on a refusal
AuthorisedHandlerStops ==
    /\ pc = "loop" /\ idx <= Len(getmembers(klass))
    /\ LET m == getmembers(klass)[idx]
           r == Search(m.pattern, work.message)
       IN  /\ m.handler /\ m.haspattern /\ r.ok
           /\ m.authorised
           /\ found' = TRUE
           /\ IF ~klass.permission
              THEN /\ ret' = "AttributeError"
                   /\ pc' = "done"
                   /\ UNCHANGED << work, arg, idx, calls, authlog >>
              ELSE \E allowed \in BOOLEAN :
                     LET a == auth_responses(work, allowed)
                     IN  /\ authlog' = Append(authlog,
                                [name |-> m.name, event |-> work,
                                 allowed |-> allowed])
                         /\ IF a.ok
                            THEN Invoke(m, a.event, r.groups)
                            ELSE /\ Store(a.event)
                                 /\ ret' = "None"
                                 /\ pc' = "done"
                                 /\ UNCHANGED << idx, calls >>
    /\ UNCHANGED << classVars, got, config, rpcVars, self, entry >>

\* line 84 with `authorised`: auth_responses(event, self.permission); the
\* answer of ibid.auth.authorise is the environment's
AuthorisedHandler ==
    /\ pc = "loop" /\ idx <= Len(getmembers(klass))
    /\ LET m == getmembers(klass)[idx]
           r == Search(m.pattern, work.message)
       IN  /\ m.handler /\ m.haspattern /\ r.ok
           /\ m.authorised
           /\ found' = TRUE
           /\ IF ~klass.permission
              THEN /\ ret' = "AttributeError"
                   /\ pc' = "done"
                   /\ UNCHANGED << work, arg, idx, calls, authlog >>
              ELSE \E allowed \in BOOLEAN :
                     LET a == auth_responses(work, allowed)
                     IN  /\ authlog' = Append(authlog,
                                [name |-> m.name, event |-> work,
                                 allowed |-> allowed])
                         /\ IF a.ok
                            THEN Invoke(m, a.event, r.groups)
                            ELSE /\ Store(a.event)
                                 /\ idx' = idx + 1
                                 /\ UNCHANGED << pc, ret, calls >>
    /\ UNCHANGED << classVars, got, config, rpcVars, self, entry >>

\* ProcessExit that takes "no handler ran" for "no handler found"
ProcessExitNoCalls ==
    /\ pc = "loop" /\ idx > Len(getmembers(klass))
    /\ ret' = IF calls # << >> THEN "event" ELSE "RuntimeError"
    /\ pc' = "done"
    /\ UNCHANGED << classVars, got, config, rpcVars, self, arg, entry, work, idx,
                    found, calls, authlog >>

\* lines 89-92: after the loop
ProcessExit ==
    /\ pc = "loop" /\ idx > Len(getmembers(klass))
    /\ ret' = IF found THEN "event" ELSE "RuntimeError"
    /\ pc' = "done"
    /\ UNCHANGED << classVars, got, config, rpcVars, self, arg, entry, work, idx,
                    found, calls, authlog >>

\* process has ended and its caller goes on: with the event process returned,
\* or with the event it passed in when process returned None or raised
Return ==
    /\ pc = "done"
    /\ pc' = "idle"
    /\ arg' = IF ret = "event" THEN [work EXCEPT !.id = 0] ELSE arg
    /\ entry' = NoEvent
    /\ work' = NoEvent
    /\ idx' = 1
    /\ found' = FALSE
    /\ ret' = "pending"
    /\ calls' = << >>
    /\ authlog' = << >>
    /\ UNCHANGED << classVars, got, config, rpcVars, self >>

---------------------------------------------------------------------------
(* The configuration changes outside the processor *)

SetKey(names) ==
    /\ pc = "idle"
    /\ \E n \in names, raw \in RawValues :
         config' = [present |-> TRUE, keys |-> [config.keys EXCEPT ![n] = raw]]
    /\ UNCHANGED << classVars, got, procVars, rpcVars >>

DelKey(names) ==
    /\ pc = "idle"
    /\ config.present
    /\ \E n \in names : 
         /\ config.keys[n] # Absent
         /\ config' = [config EXCEPT !.keys[n] = Absent]
    /\ UNCHANGED << classVars, got, procVars, rpcVars >>

DelSection ==
    /\ pc = "idle"
    /\ config.present
    /\ config' = NoSection
    /\ UNCHANGED << classVars, got, procVars, rpcVars >>

---------------------------------------------------------------------------
(* The RPC bridge: RPC.get_function, RPC.render_POST and RPC.render_GET *)

\* JSON values: numbers, strings and null, each with its text
Number(s) == [t |-> "int", s |-> s]
Str(s) == [t |-> "str", s |-> s]
Null == [t |-> "null", s |-> ""]
\* the dict {'exception': True, 'message': message}
Failure(message) == [t |-> "failure", s |-> message]

Decoded(v) == [ok |-> TRUE, value |-> v]
NotJSON == [ok |-> FALSE, value |-> Null]

\* simplejson.loads on the texts a request may carry; ValueError on any
\* text that is no JSON document
loads(text) ==
    CASE text = "42" -> Decoded(Number("42"))
      [] text = "null" -> Decoded(Null)
      [] text = "\"abc\"" -> Decoded(Str("abc"))
      [] OTHER -> NotJSON

\* simplejson.dumps
dumps(v) ==
    CASE v.t = "int" -> v.s
      [] v.t = "null" -> "null"
      [] v.t = "str" -> "\"" \o v.s \o "\""
      [] v.t = "failure" ->
            "{\"exception\": true, \"message\": \"" \o v.s \o "\"}"

\* lines 135-140 and 143-148: a text that parses is replaced by its value,
\* any other text is passed on as the string it is
Decode(text) == IF loads(text).ok THEN loads(text).value ELSE Str(text)

\* the attributes of the processor object: its remote methods and the rest
Attributes ==
    {"remote_echo", "remote_fail", "remote_ping", "setup", "process", "name"}

\* getargspec(function)[0] of the remote methods: echo and fail take one
\* argument, ping takes none besides the receiver
getargspec(name) ==
    CASE name = "remote_echo" -> << "self", "text" >>
      [] name = "remote_fail" -> << "self", "reason" >>
      [] name = "remote_ping" -> << "self" >>

\* URL path segments and query values of the requests
Segments == {"echo", "fail", "ping", "setup", "nosuch", "42", "abc"}
QueryValues == {"42", "\"abc\"", "abc"}

\* request.postpath, and request.args as the first value under the key "k"
Requests ==
    { [postpath |-> path, args |-> q] :
        path \in UNION { [1..n -> Segments] : n \in 0..(1 + MaxPathArgs) },
        q \in { << >> } \cup { << v >> : v \in QueryValues } }

\* what the body of a remote method does when it is called
Outcomes ==
    { [kind |-> "return", value |-> v, message |-> ""] :
          v \in { Number("42"), Str("abc"), Null } }
    \cup { [kind |-> "raise", value |-> Null, message |-> m] :
          m \in { "boom", "" } }

\* get_function that looks the name up without the remote_ prefix
get_function_bare(req) ==
    IF Len(req.postpath) = 0 THEN [ok |-> FALSE, name |-> "IndexError"]
    ELSE IF req.postpath[1] \in Attributes
         THEN [ok |-> TRUE, name |-> req.postpath[1]]
         ELSE [ok |-> TRUE, name |-> "None"]

\* lines 125-131: request.postpath[0] names the method; an empty postpath has
\* no element 0
get_function(req) ==
    IF Len(req.postpath) = 0 THEN [ok |-> FALSE, name |-> "IndexError"]
    ELSE IF ("remote_" \o req.postpath[1]) \in Attributes
         THEN [ok |-> TRUE, name |-> "remote_" \o req.postpath[1]]
         ELSE [ok |-> TRUE, name |-> "None"]

Returned(text) == [kind |-> "body", body |-> text]
Raised(exception) == [kind |-> "raise", body |-> exception]

\* lines 156-160 without the except clause
EncodeUncaught(outcome) ==
    IF outcome.kind = "return" THEN Returned(dumps(outcome.value))
    ELSE Raised(outcome.message)

\* lines 156-160: the result is encoded; an exception of the method becomes
\* the encoded failure dict
Encode(outcome) ==
    IF outcome.kind = "return" THEN Returned(dumps(outcome.value))
    ELSE Returned(dumps(Failure(outcome.message)))

\* lines 134-148: positional arguments from the path, keyword arguments from
\* the query
PositionalArgs(req) ==
    [i \in 1..(Len(req.postpath) - 1) |-> Decode(req.postpath[i + 1])]
KeywordArgs(req) == [i \in 1..Len(req.args) |-> Decode(req.args[i])]

IdleRPC ==
    /\ request = [postpath |-> << >>, args |-> << >>]
    /\ rpcpc = "idle"
    /\ verb = "none"
    /\ response = [kind |-> "none", body |-> ""]
    /\ invoked = << >>

\* lines 133-160, the body of render_POST: the answer and the invocation
Post(req) ==
    LET function == get_function(req)
    IN  IF ~function.ok
        THEN /\ response' = Raised(function.name)
             /\ invoked' = << >>
        ELSE IF function.name = "None"
        THEN /\ response' = Returned("Not found")
             /\ invoked' = << >>
        ELSE \E outcome \in Outcomes :
               /\ invoked' = << [name |-> function.name,
                                 args |-> PositionalArgs(req),
                                 kwargs |-> KeywordArgs(req),
                                 outcome |-> outcome] >>
               /\ response' = Encode(outcome)

\* RPC.render_POST(request)
render_POST ==
    /\ rpcpc = "idle"
    /\ \E req \in Requests :
         /\ request' = req
         /\ verb' = "POST"
         /\ rpcpc' = "done"
         /\ Post(req)
    /\ UNCHANGED << classVars, got, config, procVars >>

\* the names of a list, separated by blanks
RECURSIVE Join(_)
Join(names) ==
    IF names = << >> THEN ""
    ELSE IF Len(names) = 1 THEN names[1]
    ELSE names[1] \o " " \o Join(Tail(names))

\* the template plugin_form.html, rendered and encoded: a text that carries
\* the names it was given, in their order
form_render(args) == "form: " \o Join(args)

\* line 174 with every request handed on to render_POST
DelegatesAlways(req, args) == TRUE

\* line 174: the method takes no argument, or the request carries some
Delegates(req, args) ==
    Len(args) = 0 \/ Len(req.postpath) > 1 \/ Len(req.args) > 0

\* lines 163-177, the body of render_GET. Line 166 reads the global name
\* inspect, which line 1 does not bind: the listing branch raises NameError
\* before any member is looked at
Get(req) ==
    LET function == get_function(req)
    IN  IF ~function.ok
        THEN /\ response' = Raised(function.name)
             /\ invoked' = << >>
        ELSE IF function.name = "None"
        THEN /\ response' = Raised("NameError")
             /\ invoked' = << >>
        ELSE LET args == Tail(getargspec(function.name))
             IN  IF Delegates(req, args)
                 THEN Post(req)
                 ELSE /\ response' = Returned(form_render(args))
                      /\ invoked' = << >>

\* RPC.render_GET(request)
render_GET ==
    /\ rpcpc = "idle"
    /\ \E req \in Requests :
         /\ request' = req
         /\ verb' = "GET"
         /\ rpcpc' = "done"
         /\ Get(req)
    /\ UNCHANGED << classVars, got, config, procVars >>

\* the answer was written to the client; the resource waits for a request
Respond ==
    /\ rpcpc = "done"
    /\ request' = [postpath |-> << >>, args |-> << >>]
    /\ rpcpc' = "idle"
    /\ verb' = "none"
    /\ response' = [kind |-> "none", body |-> ""]
    /\ invoked' = << >>
    /\ UNCHANGED << classVars, got, config, procVars >>

---------------------------------------------------------------------------
(* Plugin classes and the states the program starts in *)

\* class-level declarations of addressed, processed and priority
Declare(a, p, n) ==
    [addressed |-> Plain(a), processed |-> Plain(p), priority |-> Plain(n)]

\* Processor's own values (lines 45-47) and three ways plugins override them
BaseDeclarations ==
    { Declare(TRUE, FALSE, 0), Declare(FALSE, TRUE, 0),
      Declare(TRUE, TRUE, 5), Declare(FALSE, FALSE, 5) }

\* the declarations the dispatch runs start from
LoadedDeclarations == { Declare(TRUE, FALSE, 0), Declare(FALSE, TRUE, 0) }

\* nothing declared: the (unread) values only keep each slot's type
Inherit ==
    [addressed |-> Unset(FALSE), processed |-> Unset(FALSE), priority |-> Unset(0)]

\* a subclass overrides nothing, or one attribute, or all of them
SubDeclarations ==
    { Inherit,
      [Inherit EXCEPT !.processed = Plain(TRUE)],
      [Inherit EXCEPT !.processed = Plain(FALSE)],
      Declare(FALSE, TRUE, 0) }

FilterOptions == {"addressed", "processed"}

IdleProcess ==
    /\ self = "Base"
    /\ pc = "idle"
    /\ arg = NoEvent
    /\ entry = NoEvent
    /\ work = NoEvent
    /\ idx = 1
    /\ found = FALSE
    /\ ret = "pending"
    /\ calls = << >>
    /\ authlog = << >>

\* the state after the plugin was loaded: its class was instantiated once
Init ==
    /\ klass \in Bodies
    /\ \E d \in LoadedDeclarations : declared = [Base |-> d, Sub |-> Inherit]
    /\ \E o \in OptionOrders : attrs = New(declared, "Base", o).attrs
    /\ inst = [Base |-> "live", Sub |-> "none"]
    /\ newret = "ok"
    /\ config = NoSection
    /\ got = NoRead
    /\ IdleProcess
    /\ IdleRPC

Next ==
    \/ Dispatch
    \/ Chain
    \/ SkipMember
    \/ PlainHandler
    \/ PatternMiss
    \/ PatternHandler
    \/ AuthorisedHandler
    \/ ProcessExit
    \/ Return
    \/ SetKey(FilterOptions)
    \/ DelKey(FilterOptions)
    \/ DelSection

Spec == Init /\ [][Next]_vars

\* the plugin module was imported and none of its classes instantiated yet
InitNew ==
    /\ klass = BodyMixed
    /\ \E d \in BaseDeclarations, e \in SubDeclarations :
         declared = [Base |-> d, Sub |-> e]
    /\ attrs = declared
    /\ inst = [Base |-> "none", Sub |-> "none"]
    /\ newret = "none"
    /\ config = NoSection
    /\ got = NoRead
    /\ IdleProcess
    /\ IdleRPC

NextNew ==
    \/ Construct
    \/ ReadOption
    \/ ReadDone
    \/ SetKey(OptionNames)
    \/ DelKey(OptionNames)
    \/ DelSection

SpecNew == InitNew /\ [][NextNew]_vars

\* the RPC resource of a loaded plugin
InitRPC ==
    /\ klass = BodyMixed
    /\ declared = [Base |-> Declare(TRUE, FALSE, 0), Sub |-> Inherit]
    /\ attrs = New(declared, "Base", << "addressed", "processed", "priority" >>).attrs
    /\ inst = [Base |-> "live", Sub |-> "none"]
    /\ newret = "ok"
    /\ config = NoSection
    /\ got = NoRead
    /\ IdleProcess
    /\ IdleRPC

NextRPC == render_POST \/ render_GET \/ Respond

SpecRPC == InitRPC /\ [][NextRPC]_vars

---------------------------------------------------------------------------
(* What the properties speak about *)

\* the configuration holds a value for the option
Configured(name) == config.present /\ config.keys[name] # Absent

\* what a boolean option of the running instance resolves to: "true", "false",
\* or "error" when the configured text is no boolean
Resolved(name) ==
    IF Configured(name)
    THEN CASE config.keys[name] = "true" -> "true"
           [] config.keys[name] = "off" -> "false"
           [] OTHER -> "error"
    ELSE IF attrs[self][name].val THEN "true" ELSE "false"

\* the event handed to process gets through the three filters
PassedFilters ==
    /\ entry.type = klass.type
    /\ Resolved("addressed") # "error"
    /\ Resolved("addressed") = "true" => entry.addressed = "true"
    /\ Resolved("processed") # "error"
    /\ Resolved("processed") = "false" => ~entry.processed

HasHandlers == \E m \in klass.methods : m.handler

MethodNamed(name) == CHOOSE m \in klass.methods : m.name = name

\* the member the loop is about to look at
AtMember == pc = "loop" /\ idx <= Len(getmembers(klass))
Member == getmembers(klass)[idx]

\* Regular expression matching stated as the existence of a split of the
\* message: part k takes cnt[k] characters, starting at `start`
Accepts(atom, c) == atom = "." \/ atom = c \/ {atom, c} = {"a", "A"}

RECURSIVE Offset(_, _, _)
Offset(start, cnt, k) == IF k = 1 THEN start ELSE Offset(start, cnt, k - 1) + cnt[k - 1]

Splits(p, msg) == [1..Len(p.parts) -> 0..Len(msg)]

ValidSplit(p, msg, start, cnt) ==
    /\ p.anchStart => start = 0
    /\ \A k \in 1..Len(p.parts) :
         /\ cnt[k] >= p.parts[k].min
         /\ p.parts[k].many \/ cnt[k] <= 1
         /\ Offset(start, cnt, k) + cnt[k] <= Len(msg)
         /\ \A i \in 1..cnt[k] :
              Accepts(p.parts[k].atom, msg[Offset(start, cnt, k) + i])
    /\ p.anchEnd => Offset(start, cnt, Len(p.parts) + 1) = Len(msg)

Matches(p, msg) ==
    \E start \in 0..Len(msg), cnt \in Splits(p, msg) : ValidSplit(p, msg, start, cnt)

\* the groups of a split, in the order the groups open in the pattern
RECURSIVE GroupsOf(_, _, _, _, _)
GroupsOf(p, msg, start, cnt, k) ==
    IF k = 0 THEN << >>
    ELSE LET part == p.parts[k]
             from == Offset(start, cnt, k)
             rest == GroupsOf(p, msg, start, cnt, k - 1)
         IN  CASE part.cap = "none" -> rest
               [] part.cap = "outer" /\ cnt[k] = 0 ->
                    Append(rest, [matched |-> FALSE, text |-> << >>])
               [] OTHER ->
                    Append(rest, [matched |-> TRUE,
                                  text |-> SubSeq(msg, from + 1, from + cnt[k])])

IsCapture(p, msg, args) ==
    \E start \in 0..Len(msg), cnt \in Splits(p, msg) :
        /\ ValidSplit(p, msg, start, cnt)
        /\ GroupsOf(p, msg, start, cnt, Len(p.parts)) = args

Last(seq) == seq[Len(seq)]

---------------------------------------------------------------------------
(* Properties of Processor.process *)

\* C1: an event whose type differs from the processor's type makes process
\* return (None) without any handler invoked, without the authorisation
\* consulted, and with every field of the event as it was handed in.
TypeMismatchReturns ==
    (pc # "idle" /\ entry.type # klass.type) =>
        /\ pc = "done" /\ ret = "None"
        /\ calls = << >> /\ authlog = << >>
        /\ arg = entry /\ work = entry

\* an event of another type, addressed to the bot, was handed to a processor
\* and process has returned
TypeMismatchSeen ==
    pc = "done" /\ entry.type = "state" /\ entry.addressed = "true" /\ HasHandlers

\* C2: when the addressed option of the processor resolves to true, an event
\* handed to process whose addressed attribute is false or missing reaches no
\* handler: process returns None before the loop.
AddressingFilter ==
    (pc # "idle" /\ Resolved("addressed") = "true" /\ entry.addressed # "true") =>
        pc = "done" /\ ret = "None" /\ calls = << >>

\* a message event without the addressed attribute was turned away by a
\* processor that has handlers and would take processed events
AddressingFilterSeen ==
    /\ pc = "done" /\ entry.type = klass.type /\ entry.addressed = "absent"
    /\ Resolved("addressed") = "true" /\ Resolved("processed") = "true"
    /\ HasHandlers

\* C3: when the processed option of the processor resolves to false, an event
\* handed to process with processed = true reaches no handler; so it is for an
\* event that an earlier processor of the chain has marked processed.
ProcessedFilter ==
    (pc # "idle" /\ Resolved("processed") = "false" /\ entry.processed) =>
        pc = "done" /\ ret \in {"None", "ValueError"} /\ calls = << >>

\* an event that an earlier process call answered came to a processor that
\* skips processed events, passed its type and addressing tests, and was
\* turned away
ProcessedFilterSeen ==
    /\ pc = "done" /\ entry.type = klass.type /\ entry.processed
    /\ entry.responses # << >>
    /\ Resolved("addressed") = "false" /\ Resolved("processed") = "false"
    /\ HasHandlers /\ ret = "None"

\* C4: at a pattern handler that requires authorisation and whose pattern
\* matches the message, the authorisation is asked about the working event;
\* on a refusal the handler is not invoked, notauthed is set on the event and
\* the loop goes on; on an approval the handler is invoked with the event as
\* it was (notauthed untouched) and the captured groups.
AuthorisedDispatch ==
    [][ ( /\ AtMember
          /\ Member.handler /\ Member.haspattern /\ Member.authorised
          /\ klass.permission
          /\ Matches(Member.pattern, work.message) ) =>
        ( /\ Len(authlog') = Len(authlog) + 1
          /\ Last(authlog').name = Member.name
          /\ Last(authlog').event = work
          /\ IF Last(authlog').allowed
             THEN /\ Len(calls') = Len(calls) + 1
                  /\ Last(calls').name = Member.name
                  /\ Last(calls').event = work
                  /\ IsCapture(Member.pattern, work.message, Last(calls').args)
             ELSE /\ calls' = calls
                  /\ work' = [work EXCEPT !.notauthed = "true"]
                  /\ (work.id = arg.id => arg' = work')
                  /\ pc' = "loop" /\ idx' = idx + 1 /\ ret' = ret ) ]_vars

\* in one process call a handler was refused and a later one was approved
\* and invoked
AuthorisedDispatchSeen ==
    /\ \E i \in 1..Len(authlog) : ~authlog[i].allowed
    /\ \E i \in 1..Len(authlog) :
         /\ authlog[i].allowed
         /\ \E j \in 1..Len(calls) : calls[j].name = authlog[i].name
    /\ work.notauthed = "true"

\* after this step the pass has seen a refusal
RefusedInPass == \E i \in 1..Len(authlog') : ~authlog'[i].allowed

\* the authorisation is asked in this step
Asked == Len(authlog') = Len(authlog) + 1

\* the member at hand is to be invoked under its own conditions: it is a
\* handler, its pattern (if any) matches the working event, and when such a
\* pattern handler requires authorisation, the answer given now is yes
Due ==
    /\ Member.handler
    /\ Member.haspattern =>
          /\ Matches(Member.pattern, work.message)
          /\ Member.authorised => (Asked /\ Last(authlog').allowed)

\* C14: a refusal skips the refused handler only. At the refusal nothing is
\* invoked and the loop moves to the next member; from then on every member
\* is treated as without the refusal: authorisation is asked exactly for a
\* matching pattern handler that requires it, a handler is invoked exactly
\* under its own conditions, the pass ends only after the last member or by
\* a handler's exception, and the working event keeps notauthed true, also
\* through a later approved invocation.
RefusalSkipsOneHandler ==
    [][ (pc = "loop" /\ RefusedInPass) =>
          /\ work'.notauthed = "true"
          /\ (work.id = arg.id /\ work'.id = work.id) => arg'.notauthed = "true"
          /\ IF idx <= Len(getmembers(klass))
             THEN /\ Asked <=> ( /\ Member.handler /\ Member.haspattern
                                 /\ Member.authorised
                                 /\ Matches(Member.pattern, work.message) )
                  /\ IF Due
                     THEN /\ Len(calls') = Len(calls) + 1
                          /\ Last(calls').name = Member.name
                          /\ Last(calls').event.id = work.id
                          /\ Last(calls').event.message = work.message
                          /\ pc' = "loop" => idx' = idx + 1
                          /\ pc' # "loop" => ret' = "HandlerFault"
                     ELSE /\ calls' = calls
                          /\ pc' = "loop" /\ idx' = idx + 1 /\ ret' = ret
             ELSE pc' = "done" /\ ret' = "event" /\ calls' = calls ]_vars

\* the first handler was refused, the plain handler after it was invoked, and
\* the last one was asked about again, approved and invoked; the event the
\* pass returns carries notauthed
RefusalSkipsOneHandlerSeen ==
    /\ klass = BodyAuth /\ pc = "done" /\ ret = "event"
    /\ Len(authlog) = 2
    /\ authlog[1].name = "calc" /\ ~authlog[1].allowed
    /\ authlog[2].name = "search" /\ authlog[2].allowed
    /\ Len(calls) = 2
    /\ calls[1].name = "define" /\ calls[2].name = "search"
    /\ calls[2].event.notauthed = "true"
    /\ work.notauthed = "true"

\* C5: at a pattern handler that requires no authorisation, the handler is
\* invoked exactly when its pattern matches the message of the working event,
\* with that event and the captured groups in group order; when the pattern
\* does not match nothing is invoked, nothing fails and the loop goes on to
\* the next member.
PatternDispatch ==
    [][ ( /\ AtMember
          /\ Member.handler /\ Member.haspattern /\ ~Member.authorised ) =>
        IF Matches(Member.pattern, work.message)
        THEN /\ Len(calls') = Len(calls) + 1
             /\ Last(calls').name = Member.name
             /\ Last(calls').event = work
             /\ IsCapture(Member.pattern, work.message, Last(calls').args)
        ELSE /\ calls' = calls
             /\ work' = work /\ arg' = arg
             /\ pc' = "loop" /\ idx' = idx + 1 /\ ret' = ret ]_vars

\* the message "a": the handler of ^a(.+)$ was passed over, and the handler
\* of ^(.+?)(b)?$ got the groups "a" and None
PatternDispatchSeen ==
    /\ klass = BodyMixed /\ pc = "done" /\ ret = "event"
    /\ Len(calls) = 2
    /\ calls[1].name = "define"
    /\ calls[2].name = "search"
    /\ calls[2].event.message = << "a" >>
    /\ Len(calls[2].args) = 2
    /\ calls[2].args[1] = [matched |-> TRUE, text |-> << "a" >>]
    /\ ~calls[2].args[2].matched

NoHandlersRaised == pc = "done" /\ PassedFilters /\ ~HasHandlers /\ ret = "RuntimeError"

\* C8: within one process call the event a handler returns is the event of
\* every later handler: the next invocation gets that object, and patterns
\* are matched against its message; process returns the last event returned
\* by a handler, or the object it was handed when no handler returned one.
SubstitutionCarries ==
    /\ \A i \in 1..Len(calls) :
         LET m == MethodNamed(calls[i].name)
         IN  m.haspattern =>
                 IsCapture(m.pattern, calls[i].event.message, calls[i].args)
    /\ \A i \in 1..(Len(calls) - 1) :
         IF calls[i].returned
         THEN /\ calls[i + 1].event.id = calls[i].value.id
              /\ calls[i + 1].event.message = calls[i].value.message
         ELSE calls[i + 1].event.id = calls[i].event.id
    /\ (pc = "done" /\ ret = "event") =>
         IF \E i \in 1..Len(calls) : calls[i].returned
         THEN LET n == CHOOSE i \in 1..Len(calls) :
                          /\ calls[i].returned
                          /\ \A j \in (i + 1)..Len(calls) : ~calls[j].returned
              IN  /\ work.id = calls[n].value.id
                  /\ work.message = calls[n].value.message
         ELSE work.id = entry.id /\ work = arg

\* a handler returned a derived event, a later pattern handler was invoked
\* with it, and process returned it
SubstitutionCarriesSeen ==
    /\ pc = "done" /\ ret = "event"
    /\ Len(calls) >= 2
    /\ calls[1].returned
    /\ calls[1].value.message # calls[1].event.message
    /\ MethodNamed(calls[2].name).haspattern
    /\ calls[2].event.id = 1
    /\ ~calls[2].returned
    /\ work.id = 1 /\ arg.id = 0

---------------------------------------------------------------------------
(* Properties of the RPC bridge *)

\* the request names a method, and the processor has no remote_<name> member
Unresolved ==
    /\ Len(request.postpath) >= 1
    /\ \A a \in Attributes : a # "remote_" \o request.postpath[1]

Resolves ==
    /\ Len(request.postpath) >= 1
    /\ \E a \in Attributes : a = "remote_" \o request.postpath[1]

\* C9: a POST whose method name resolves to no remote_<name> member of the
\* processor is answered with the text "Not found": no method is invoked and
\* render_POST raises nothing, whatever arguments the request carries.
UnknownMethodNotFound ==
    (rpcpc = "done" /\ verb = "POST" /\ Unresolved) =>
        response = [kind |-> "body", body |-> "Not found"] /\ invoked = << >>

\* the name of a member that is no remote method, with a positional and a
\* keyword argument
UnknownMethodSeen ==
    /\ rpcpc = "done" /\ verb = "POST"
    /\ Len(request.postpath) = 2 /\ request.postpath[1] = "setup"
    /\ request.args # << >>
    /\ response.body = "Not found"

\* C10: a POST to a resolved method invokes it once; when the method raises
\* an exception with message m the answer is the JSON text of
\* {exception: true, message: m}; when it returns v the answer is the JSON
\* text of v; in neither case does render_POST raise.
MethodOutcomeEncoded ==
    (rpcpc = "done" /\ verb = "POST" /\ Resolves) =>
        /\ Len(invoked) = 1
        /\ response.kind = "body"
        /\ LET o == invoked[1].outcome
           IN  response.body =
                 CASE o.kind = "raise" /\ o.message = "boom" ->
                          "{\"exception\": true, \"message\": \"boom\"}"
                   [] o.kind = "raise" /\ o.message = "" ->
                          "{\"exception\": true, \"message\": \"\"}"
                   [] o.kind = "return" /\ o.value.t = "int" -> "42"
                   [] o.kind = "return" /\ o.value.t = "str" -> "\"abc\""
                   [] o.kind = "return" /\ o.value.t = "null" -> "null"

\* a method called with a decoded argument raised "boom"
MethodRaisedSeen ==
    /\ rpcpc = "done" /\ verb = "POST"
    /\ Len(invoked) = 1
    /\ invoked[1].name = "remote_fail"
    /\ invoked[1].args = << [t |-> "int", s |-> "42"] >>
    /\ invoked[1].outcome.kind = "raise" /\ invoked[1].outcome.message = "boom"
    /\ response.kind = "body"

\* a GET that names a remote method and carries nothing else
BareGet ==
    /\ rpcpc = "done" /\ verb = "GET"
    /\ Resolves
    /\ Len(request.postpath) = 1
    /\ request.args = << >>

\* the usage description of the method the request names
Usage ==
    CASE request.postpath[1] = "echo" -> "form: text"
      [] request.postpath[1] = "fail" -> "form: reason"
      [] request.postpath[1] = "ping" -> "form: "

\* C11 as stated: every GET that names a remote method and carries no further
\* path segment and no argument is answered with the usage description of
\* that method, and the method is not invoked, also when the method declares
\* no argument besides the receiver.
UsageForEveryMethod ==
    BareGet => response = [kind |-> "body", body |-> Usage] /\ invoked = << >>

\* C11, amended: a GET that names a remote method declaring at least one
\* argument besides the receiver, and carries no further path segment and no
\* argument, is answered with the usage description (the argument names
\* without the receiver) and the method is not invoked; a method that declares
\* no such argument is invoked once, without arguments, as render_POST does.
UsageForMethodWithArgs ==
    BareGet =>
        IF request.postpath[1] \in {"echo", "fail"}
        THEN response = [kind |-> "body", body |-> Usage] /\ invoked = << >>
        ELSE /\ Len(invoked) = 1
             /\ invoked[1].name = "remote_ping"
             /\ invoked[1].args = << >> /\ invoked[1].kwargs = << >>

\* the usage of echo was shown
UsageShownSeen ==
    /\ BareGet
    /\ request.postpath[1] = "echo"
    /\ response.body = "form: text"
    /\ invoked = << >>

\* C12: a GET whose method name is absent or resolves to no remote method is
\* answered with the listing of exactly the names of the remote_ methods,
\* prefix stripped; no method is invoked and nothing is raised.
ListingReturned ==
    (rpcpc = "done" /\ verb = "GET" /\ ~Resolves) =>
        /\ response = [kind |-> "body", body |-> "functions: echo fail ping"]
        /\ invoked = << >>

---------------------------------------------------------------------------
(* Properties of Processor.__new__ *)

\* what the class body, with its base classes, says about an attribute
DeclaredValue(c, name) ==
    IF c = "Sub" /\ declared["Sub"][name].kind # "unset"
    THEN declared["Sub"][name].val
    ELSE IF c = "Sub" THEN declared["Base"][name].val
    ELSE declared[c][name].val

ExpectedPriority(c) ==
    IF DeclaredValue(c, "processed") /\ DeclaredValue(c, "priority") = 0
    THEN 1500
    ELSE DeclaredValue(c, "priority")

\* C6: once a processor is constructed, the priority option of its class
\* defaults to 1500 when the class declares processed true and leaves priority
\* at zero, and to the declared priority otherwise (processed true with a
\* nonzero priority, or processed false); reading the priority of the instance
\* gives that value as long as the configuration sets no priority.
PriorityElevated ==
    \A c \in Classes :
        inst[c] = "live" =>
            /\ attrs[c]["priority"] = [kind |-> "option", val |-> ExpectedPriority(c)]
            /\ ~Configured("priority") =>
                   OptionGet(attrs, config, c, "priority")
                       = [ok |-> TRUE, val |-> ExpectedPriority(c)]

\* a constructed processor whose class declares processed = True and no
\* priority, next to a configuration that sets other options only
PriorityElevatedSeen ==
    /\ inst["Base"] = "live"
    /\ declared["Base"]["processed"].val
    /\ declared["Base"]["priority"].val = 0
    /\ attrs["Base"]["priority"].val = 1500
    /\ Configured("processed") /\ ~Configured("priority")

---------------------------------------------------------------------------
(* Properties of option reads *)

\* the default the class's option captured when the class was constructed
CapturedDefault(c, name) ==
    IF name = "priority" THEN ExpectedPriority(c) ELSE DeclaredValue(c, name)

\* the stored text is one the option's accessor accepts
WellFormed(name) ==
    IF name = "priority" THEN config.keys[name] = "7"
    ELSE config.keys[name] \in {"true", "off"}

\* a read was answered in this step
ReadAnswered == got = NoRead /\ got' # NoRead

\* the read returned the value the configuration stores now
ReturnsStored(read) ==
    /\ read.result.ok
    /\ read.name = "priority" => read.result.val = 7
    /\ read.name # "priority" => read.result.val = (config.keys[read.name] = "true")

\* C13: whatever configuration changes came before, a read of an option of a
\* processor returns the value stored now under the option's key in the
\* section of the processor when section and key exist, and the default
\* captured at construction otherwise.
ReadReturnsStoredValue ==
    [][ReadAnswered =>
          IF Configured(got'.name)
          THEN ReturnsStored(got')
          ELSE got'.result =
                   [ok |-> TRUE, val |-> CapturedDefault(got'.class, got'.name)]
      ]_vars

\* C13, the part the code keeps: a read follows the configuration as it is at
\* the read. A stored text the accessor accepts is returned coerced, one it
\* rejects makes the read raise ValueError, and without section or key the
\* captured default is returned.
ReadFollowsConfiguration ==
    [][ReadAnswered =>
          IF Configured(got'.name)
          THEN IF WellFormed(got'.name) THEN ReturnsStored(got')
               ELSE got'.result = [ok |-> FALSE, val |-> "ValueError"]
          ELSE got'.result =
                   [ok |-> TRUE, val |-> CapturedDefault(got'.class, got'.name)]
      ]_vars

\* a read returned the value of a key a configuration change had stored
StoredValueReadSeen ==
    /\ got.name = "processed"
    /\ Configured("processed") /\ config.keys["processed"] = "true"
    /\ ~DeclaredValue(got.class, "processed")
    /\ got.result = [ok |-> TRUE, val |-> TRUE]

---------------------------------------------------------------------------
(* Properties of repeated construction *)

\* C15: every construction succeeds, the first of a class, a second one of
\* the same class and that of a subclass whose parent was constructed; and a
\* constructed class carries addressed, processed and priority as options
\* whose defaults are its class-level values, priority elevated to 1500 where
\* processed is true and priority zero.
EveryConstructionSucceeds ==
    /\ newret \in {"none", "ok"}
    /\ \A c \in Classes :
         inst[c] = "live" =>
             \A name \in OptionNames :
                 attrs[c][name] =
                     [kind |-> "option", val |-> CapturedDefault(c, name)]

\* C15, the part the code keeps: a construction fails only with
\* AttributeError and only when the class, or the parent it inherits an
\* attribute from, was constructed before; a constructed class carries the
\* three options with its class-level values as defaults.
FirstConstructionSucceeds ==
    /\ newret \in {"none", "ok", "AttributeError"}
    /\ newret = "AttributeError" => \E c \in Classes : inst[c] = "live"
    /\ \A c \in Classes :
         inst[c] = "live" =>
             \A name \in OptionNames :
                 attrs[c][name] =
                     [kind |-> "option", val |-> CapturedDefault(c, name)]

====
